---- MODULE Spec2Model ----
(***************************************************************************)
(* UNHVD: the hand-off of decoded frames and unprojected point clouds      *)
(* between the network decoder thread (unhvd_network_decoder_thread) and   *)
(* the threads that poll with unhvd_get_begin / unhvd_get_end.             *)
(*                                                                         *)
(* Conventions                                                             *)
(*  - a pointer is an integer, 0 is NULL; the first plane pointer of a     *)
(*    received frame is the rank of the receive call that produced it      *)
(*    among the receive calls that returned a picture;                     *)
(*  - a NULL AVFrame pointer in the local array frames[] and an AVFrame    *)
(*    whose data[0] is NULL are both written NullFrame;                    *)
(*  - heap[a] is the content of the array allocated at address a (one      *)
(*    number per element, 0 for an all-zero element), or FreeCell;         *)
(*    heap[a].born tells one allocation from the next at the same address. *)
(***************************************************************************)
EXTENDS Integers, Sequences, FiniteSets, TLC

\* enum UNHVD_COMPILE_TIME_CONSTANTS
UNHVD_MAX_DECODERS == 3

\* bounds of the model
MaxHwSize == 2
MaxCycles == 3
NumConsumers == 2
NumAddr == 4

Min2(a, b) == IF a < b THEN a ELSE b

HwSizes == 1..Min2(MaxHwSize, UNHVD_MAX_DECODERS)
Consumers == 1..NumConsumers
Addr == 1..NumAddr

\* owner of std::mutex unhvd::mutex: 0 when unlocked, Producer, or a consumer
Producer == 0 - 1

VARIABLES
    decoders,             \* unhvd::decoders
    hardware_unprojector, \* unhvd::hardware_unprojector != NULL
    frame,                \* unhvd::frame[i], the descriptor behind each slot
    mutex,                \* owner of unhvd::mutex
    point_cloud,          \* unhvd::point_cloud (working)
    point_cloud_shared,   \* unhvd::point_cloud_shared (published)
    heap,                 \* arrays allocated with new float3[] / new color32[]
    keep_working,         \* unhvd::keep_working
    ppc,                  \* position of the network decoder thread
    pidx,                 \* loop index i of the publish loop
    frames,               \* local AVFrame *frames[] of the decoder thread
    cycle,                \* number of nhvd_receive calls that returned a picture
    published,            \* an iteration has finished its locked block
    fresh,                \* a frame was stored in a slot since the last UNHVD_OK
    latest,               \* per stream the last frame published since the last end
                          \* call, and the depth frame of the last published cloud
    cpc,                  \* position of each polling thread
    want,                 \* the outputs asked of the begin call that returned UNHVD_OK
    begin_ret,            \* value returned by begin, until the end call
    out_frame,            \* what the last begin call wrote to *frame
    out_pc,               \* what the last begin call wrote to *pc
    seen_cause,           \* the value of cause when the begin call returned
    end_error,            \* an end call has returned UNHVD_ERROR
    close_pc,             \* position of the thread that calls unhvd_close
    handle,               \* what unhvd_init returned to the callers, 0 for NULL
    protocol,             \* what the polling threads do after UNHVD_ERROR
    cause,                \* why the decoder thread left its loop
    after_free            \* accesses to the object made after `delete u`

vars == <<decoders, hardware_unprojector, frame, mutex, point_cloud,
          point_cloud_shared, heap, keep_working, ppc, pidx, frames, cycle,
          published, fresh, latest, cpc, want, begin_ret, out_frame, out_pc, seen_cause, end_error,
          close_pc, handle, protocol, cause, after_free>>

----------------------------------------------------------------------------
\* AVFrame as left by av_frame_alloc / av_frame_unref
NullFrame ==
    [data |-> 0, width |-> 0, height |-> 0, format |-> "NONE", linesize |-> 0]

\* caller memory that no begin call has written
UntouchedFrame ==
    [data |-> 0 - 1, width |-> 0 - 1, height |-> 0 - 1, format |-> "?",
     linesize |-> 0 - 1]

UntouchedCloud ==
    [data |-> 0 - 1, colors |-> 0 - 1, size |-> 0 - 1, used |-> 0 - 1]

\* hdu_point_cloud() value-initialized
EmptyCloud == [data |-> 0, colors |-> 0, size |-> 0, used |-> 0]

\* the decoded pictures the decoders hand over: dimensions, stride, format.
\* Decoder 0 is the depth stream when an unprojector is configured.
DepthKinds ==
    { [width |-> 1, height |-> 1, format |-> "P010LE", linesize |-> 2],
      [width |-> 2, height |-> 1, format |-> "P016LE", linesize |-> 4],
      [width |-> 1, height |-> 1, format |-> "NV12", linesize |-> 1] }

TextureKinds ==
    { [width |-> 1, height |-> 1, format |-> "RGB0", linesize |-> 4],
      [width |-> 1, height |-> 1, format |-> "NV12", linesize |-> 1] }

\* plain video streaming (no depth_config), and any third decoder
VideoKinds ==
    { [width |-> 2, height |-> 1, format |-> "NV12", linesize |-> 2] }

FrameKinds(i) ==
    IF ~hardware_unprojector \/ i > 1 THEN VideoKinds
    ELSE IF i = 0 THEN DepthKinds ELSE TextureKinds

MkFrame(id, k) ==
    [data |-> id, width |-> k.width, height |-> k.height,
     format |-> k.format, linesize |-> k.linesize]

Streams == 0..(decoders - 1)

\* heap cell: the elements, the depth frame last unprojected into them, and
\* the depth frame during whose unprojection the array was allocated
FreeCell == [mem |-> <<>>, src |-> 0, born |-> 0]

Delete(h, a) == IF a = 0 THEN h ELSE [h EXCEPT ![a] = FreeCell]

FreeAddrs(h) == {a \in Addr : h[a] = FreeCell}

\* operator new[]: the allocator hands out the lowest free address, so an
\* array deleted just before is handed out again
NewAddr(h) == CHOOSE a \in FreeAddrs(h) : \A b \in FreeAddrs(h) : a <= b

\* what new float3[n] / new color32[n] may hold: indeterminate values
Garbage(n) == [1..n -> {0, 0 - 1}]

\* hdu_unproject sets pc->used to the number of pixels it turned into
\* points. The depth maps of the model: a map of one pixel with or without
\* a depth in range, a wider map with one pixel out of range
ValidPixels(size) == IF size = 1 THEN {0, 1} ELSE {size - 1}

\* hdu_unproject: writes the first `used` elements from the depth map
HduUnproject(mem, used, id) ==
    [i \in 1..Len(mem) |-> IF i <= used THEN id ELSE mem[i]]

\* mutant: the tail is left as it is
ZeroTailSkipped(mem, used) == mem

\* memset(pc->data + pc->used, 0, (pc->size - pc->used) * sizeof(...))
ZeroTail(mem, used) ==
    [i \in 1..Len(mem) |-> IF i > used THEN 0 ELSE mem[i]]

DepthRejected(d) ==
    \/ d.linesize \div d.width # 2
    \/ (d.format # "P010LE" /\ d.format # "P016LE")

TextureRejected(t) ==
    t.data # 0 /\ t.format # "RGB0" /\ t.format # "RGBA"

\* frames[1] as read at the call of unhvd_unproject_depth_frame: with one
\* decoder the element was never written and its value is indeterminate
TextureCandidates(fr) ==
    IF decoders > 1 THEN {fr[1]}
    ELSE {NullFrame} \cup {MkFrame(0 - 1, k) : k \in TextureKinds}

\* mutant: the check for a live frame always succeeds
NewDataAlways == TRUE

\* bool new_data: some slot holds a frame with a non-null first plane
NewData == \E i \in Streams : frame[i].data # 0

\* std::mutex::unlock; by a thread that does not own the mutex the
\* behaviour is undefined: the mutex is released or stays as it is
UnlockOutcomes(t) == IF mutex = t THEN {0} ELSE {0, mutex}

\* how the polling threads pair their calls: unhvd_get_end after every
\* unhvd_get_begin, as unhvd.h asks, or only after one that returned UNHVD_OK
Protocols == {"end_always", "end_after_ok"}

----------------------------------------------------------------------------
\* mutant: the slots are not cleared and hold a stale first plane pointer
InitSlotsNotCleared ==
    /\ handle \in {0, 1}
    /\ decoders \in HwSizes
    /\ hardware_unprojector \in BOOLEAN
    /\ frame = [i \in 0..(decoders - 1) |->
                  [NullFrame EXCEPT !.data = 0 - 1]]
    /\ mutex = 0
    /\ point_cloud = EmptyCloud
    /\ point_cloud_shared = EmptyCloud
    /\ heap = [a \in Addr |-> FreeCell]
    /\ keep_working = TRUE
    /\ ppc = IF handle = 0 THEN "none" ELSE "loop"
    /\ pidx = 0
    /\ frames = [i \in 0..(decoders - 1) |-> NullFrame]
    /\ cycle = 0
    /\ published = FALSE
    /\ fresh = FALSE
    /\ latest = [frame |-> [i \in 0..(decoders - 1) |-> NullFrame], cloud |-> 0]
    /\ cpc = [c \in Consumers |-> "idle"]
    /\ want = [c \in Consumers |-> "none"]
    /\ begin_ret = [c \in Consumers |-> "NONE"]
    /\ out_frame = [c \in Consumers |-> [i \in 0..(decoders - 1) |-> UntouchedFrame]]
    /\ out_pc = [c \in Consumers |-> UntouchedCloud]
    /\ seen_cause = [c \in Consumers |-> "none"]
    /\ end_error = FALSE
    /\ close_pc = "none"
    /\ protocol = "end_always"
    /\ cause = "none"
    /\ after_free = {}

\* the return of unhvd_init: the handle is NULL when a step of the
\* initialization failed, and then there is no object and no thread;
\* otherwise the object is as the constructor and lines 84-101 leave it
\* and the decoder thread has been started
Init ==
    /\ handle \in {0, 1}
    /\ decoders \in HwSizes
    /\ hardware_unprojector \in BOOLEAN
    /\ frame = [i \in 0..(decoders - 1) |-> NullFrame]
    /\ mutex = 0
    /\ point_cloud = EmptyCloud
    /\ point_cloud_shared = EmptyCloud
    /\ heap = [a \in Addr |-> FreeCell]
    /\ keep_working = TRUE
    /\ ppc = IF handle = 0 THEN "none" ELSE "loop"
    /\ pidx = 0
    /\ frames = [i \in 0..(decoders - 1) |-> NullFrame]
    /\ cycle = 0
    /\ published = FALSE
    /\ fresh = FALSE
    /\ latest = [frame |-> [i \in 0..(decoders - 1) |-> NullFrame], cloud |-> 0]
    /\ cpc = [c \in Consumers |-> "idle"]
    /\ want = [c \in Consumers |-> "none"]
    /\ begin_ret = [c \in Consumers |-> "NONE"]
    /\ out_frame = [c \in Consumers |-> [i \in 0..(decoders - 1) |-> UntouchedFrame]]
    /\ out_pc = [c \in Consumers |-> UntouchedCloud]
    /\ seen_cause = [c \in Consumers |-> "none"]
    /\ end_error = FALSE
    /\ close_pc = "none"
    /\ protocol = "end_always"
    /\ cause = "none"
    /\ after_free = {}

\* the same return of unhvd_init, in an application whose polling threads
\* pair their calls in either way
InitP ==
    /\ handle \in {0, 1}
    /\ decoders \in HwSizes
    /\ hardware_unprojector \in BOOLEAN
    /\ frame = [i \in 0..(decoders - 1) |-> NullFrame]
    /\ mutex = 0
    /\ point_cloud = EmptyCloud
    /\ point_cloud_shared = EmptyCloud
    /\ heap = [a \in Addr |-> FreeCell]
    /\ keep_working = TRUE
    /\ ppc = IF handle = 0 THEN "none" ELSE "loop"
    /\ pidx = 0
    /\ frames = [i \in 0..(decoders - 1) |-> NullFrame]
    /\ cycle = 0
    /\ published = FALSE
    /\ fresh = FALSE
    /\ latest = [frame |-> [i \in 0..(decoders - 1) |-> NullFrame], cloud |-> 0]
    /\ cpc = [c \in Consumers |-> "idle"]
    /\ want = [c \in Consumers |-> "none"]
    /\ begin_ret = [c \in Consumers |-> "NONE"]
    /\ out_frame = [c \in Consumers |-> [i \in 0..(decoders - 1) |-> UntouchedFrame]]
    /\ out_pc = [c \in Consumers |-> UntouchedCloud]
    /\ seen_cause = [c \in Consumers |-> "none"]
    /\ end_error = FALSE
    /\ close_pc = "none"
    /\ protocol \in Protocols
    /\ cause = "none"
    /\ after_free = {}

config == <<decoders, hardware_unprojector, handle, protocol>>
close_vars == <<close_pc, after_free>>
consumer_vars == <<cpc, want, begin_ret, out_frame, out_pc, seen_cause, end_error>>
cloud_vars == <<point_cloud, point_cloud_shared, heap>>

----------------------------------------------------------------------------
\* the network decoder thread

\* mutant: the mutex is needed from the top of the iteration
LoopConditionNeedsMutex ==
    /\ ppc = "loop"
    /\ mutex = 0
    /\ ppc' = IF keep_working THEN "receive" ELSE "exit"
    /\ cause' = IF keep_working THEN cause ELSE "stopped"
    /\ UNCHANGED <<config, latest, frame, mutex, cloud_vars, keep_working, pidx, frames,
                   cycle, published, fresh, consumer_vars, close_vars>>

\* mutant: the loop does not look at keep_working
LoopConditionFlagIgnored ==
    /\ ppc = "loop"
    /\ ppc' = "receive"
    /\ cause' = cause
    /\ UNCHANGED <<config, latest, frame, mutex, cloud_vars, keep_working, pidx, frames,
                   cycle, published, fresh, consumer_vars, close_vars>>

\* while( u->keep_working && ...
LoopCondition ==
    /\ ppc = "loop"
    /\ ppc' = IF keep_working THEN "receive" ELSE "exit"
    /\ cause' = IF keep_working THEN cause ELSE "stopped"
    /\ UNCHANGED <<config, latest, frame, mutex, cloud_vars, keep_working, pidx, frames,
                   cycle, published, fresh, consumer_vars, close_vars>>

\* nhvd_receive returned NHVD_TIMEOUT: continue
ReceiveTimeout ==
    /\ ppc = "receive"
    /\ ppc' = "loop"
    /\ UNCHANGED <<config, latest, frame, mutex, cloud_vars, keep_working, pidx, frames,
                   cycle, published, fresh, consumer_vars, cause, close_vars>>

\* mutant: the receive call is tried again after NHVD_ERROR
ReceiveErrorRetried ==
    /\ ppc = "receive"
    /\ ppc' = "loop"
    /\ cause' = "error"
    /\ UNCHANGED <<config, latest, frame, mutex, cloud_vars, keep_working, pidx, frames,
                   cycle, published, fresh, consumer_vars, close_vars>>

\* nhvd_receive returned NHVD_ERROR: the loop ends
ReceiveError ==
    /\ ppc = "receive"
    /\ ppc' = "exit"
    /\ cause' = "error"
    /\ UNCHANGED <<config, latest, frame, mutex, cloud_vars, keep_working, pidx, frames,
                   cycle, published, fresh, consumer_vars, close_vars>>

\* what nhvd_receive may leave in frames[0..n-1]: for each decoder a picture
\* of its stream or NULL
RECURSIVE Received(_)
Received(n) ==
    IF n = 0 THEN {[i \in {} |-> NullFrame]}
    ELSE {[i \in 0..(n - 1) |-> IF i = n - 1 THEN k ELSE got[i]] :
             got \in Received(n - 1), k \in FrameKinds(n - 1) \cup {NullFrame}}

\* mutant: the arrays are allocated anew for every depth frame
NeedsReallocAlways(size, pc) == TRUE

\* mutant: the arrays only grow
NeedsReallocToGrow(size, pc) == size > pc.size

\* if(size != pc->size)
NeedsRealloc(size, pc) == size # pc.size

\* unhvd_unproject_depth_frame after its two format checks passed
UnprojectInto(depth) ==
    LET size == depth.width * depth.height
        realloc == NeedsRealloc(size, point_cloud)
        h0 == IF realloc
              THEN Delete(Delete(heap, point_cloud.data), point_cloud.colors)
              ELSE heap
        d == IF realloc THEN NewAddr(h0) ELSE point_cloud.data
        c == IF realloc
             THEN NewAddr([h0 EXCEPT ![d] = [mem |-> <<0>>, src |-> 0, born |-> 0]])
             ELSE point_cloud.colors
        before(a) == IF realloc THEN Garbage(size) ELSE {heap[a].mem}
        born(a) == IF realloc THEN depth.data ELSE heap[a].born
        after(a, used) ==
            {ZeroTail(HduUnproject(g, used, depth.data), used) : g \in before(a)}
    IN \E used \in ValidPixels(size) :
       \E md \in after(d, used), mc \in after(c, used) :
         /\ point_cloud' = [data |-> d, colors |-> c,
                             size |-> IF realloc THEN size ELSE point_cloud.size,
                             used |-> used]
         /\ heap' = [h0 EXCEPT
                       ![d] = [mem |-> md, src |-> depth.data, born |-> born(d)],
                       ![c] = [mem |-> mc, src |-> depth.data, born |-> born(c)]]

\* mutant: the loop goes on to publish after a failed unprojection
UnprojectBreakMissing(fr) ==
    IF hardware_unprojector /\ fr[0].data # 0
    THEN \E texture \in TextureCandidates(fr) :
           IF DepthRejected(fr[0]) \/ TextureRejected(texture)
           THEN /\ ppc' = "lock"
                /\ cause' = "rejected"
                /\ frames' = fr
                /\ UNCHANGED cloud_vars
           ELSE /\ UnprojectInto(fr[0])
                /\ ppc' = "lock"
                /\ frames' = fr
                /\ UNCHANGED <<point_cloud_shared, cause>>
    ELSE /\ ppc' = "lock"
         /\ frames' = fr
         /\ UNCHANGED <<cloud_vars, cause>>

\* if(u->hardware_unprojector && frames[0]) if(unhvd_unproject_depth_frame(...) != UNHVD_OK) break;
Unproject(fr) ==
    IF hardware_unprojector /\ fr[0].data # 0
    THEN \E texture \in TextureCandidates(fr) :
           IF DepthRejected(fr[0]) \/ TextureRejected(texture)
           THEN /\ ppc' = "exit"
                /\ cause' = "rejected"
                /\ frames' = [i \in Streams |-> NullFrame]
                /\ UNCHANGED cloud_vars
           ELSE /\ UnprojectInto(fr[0])
                /\ ppc' = "lock"
                /\ frames' = fr
                /\ UNCHANGED <<point_cloud_shared, cause>>
    ELSE /\ ppc' = "lock"
         /\ frames' = fr
         /\ UNCHANGED <<cloud_vars, cause>>

\* mutant: the unref of the previous frames inside nhvd_receive takes the
\* storage of the slots with it
ReceiveFramesDropsSlots ==
    /\ ppc = "receive"
    /\ frame' = [i \in Streams |-> NullFrame]
    /\ \E got \in Received(decoders) :
         LET some == \E i \in Streams : got[i] # NullFrame
         IN /\ some => cycle < MaxCycles
            /\ cycle' = IF some THEN cycle + 1 ELSE cycle
            /\ Unproject([i \in Streams |->
                            IF got[i] = NullFrame THEN NullFrame
                            ELSE MkFrame(cycle + 1, got[i])])
    /\ UNCHANGED <<config, latest, mutex, keep_working, pidx, published, fresh,
                   consumer_vars, close_vars>>

\* nhvd_receive returned frames, for each decoder a picture or NULL; the
\* thread then unprojects the depth frame, all before it asks for the mutex
ReceiveFrames ==
    /\ ppc = "receive"
    /\ \E got \in Received(decoders) :
         LET some == \E i \in Streams : got[i] # NullFrame
         IN /\ some => cycle < MaxCycles
            /\ cycle' = IF some THEN cycle + 1 ELSE cycle
            /\ Unproject([i \in Streams |->
                            IF got[i] = NullFrame THEN NullFrame
                            ELSE MkFrame(cycle + 1, got[i])])
    /\ UNCHANGED <<config, latest, frame, mutex, keep_working, pidx, published, fresh,
                   consumer_vars, close_vars>>

\* what the publish that starts now makes the latest result: the frames
\* just received replace those of their streams, and with a depth frame
\* among them the cloud unprojected from it becomes the published one
Publishing ==
    [frame |-> [i \in Streams |->
                  IF frames[i].data # 0 THEN frames[i] ELSE latest.frame[i]],
     cloud |-> IF hardware_unprojector /\ frames[0].data # 0
               THEN frames[0].data ELSE latest.cloud]

\* mutant: the publish block runs without taking the mutex
ProducerLockMissing ==
    /\ ppc = "lock"
    /\ ppc' = "publish"
    /\ pidx' = 0
    /\ latest' = Publishing
    /\ UNCHANGED <<config, frame, mutex, cloud_vars, keep_working, frames, cycle,
                   published, fresh, consumer_vars, cause, close_vars>>

\* std::lock_guard<std::mutex> frame_guard(u->mutex)
ProducerLock ==
    /\ ppc = "lock"
    /\ mutex = 0
    /\ mutex' = Producer
    /\ ppc' = "publish"
    /\ pidx' = 0
    /\ latest' = Publishing
    /\ UNCHANGED <<config, frame, cloud_vars, keep_working, frames, cycle,
                   published, fresh, consumer_vars, cause, close_vars>>

\* ++i of the publish loop
NextSlot ==
    /\ pidx' = IF pidx + 1 < decoders THEN pidx + 1 ELSE 0
    /\ ppc' = IF pidx + 1 < decoders THEN "publish" ELSE "swap"

\* mutant: a slot that still holds an unretrieved frame keeps it
PublishUnrefKeepsLive ==
    /\ ppc = "publish"
    /\ IF frames[pidx].data # 0 /\ frame[pidx].data = 0
       THEN /\ frame' = frame
            /\ ppc' = "ref"
            /\ pidx' = pidx
       ELSE /\ NextSlot
            /\ frame' = frame
    /\ UNCHANGED <<config, latest, mutex, cloud_vars, keep_working, frames, cycle,
                   published, fresh, consumer_vars, cause, close_vars>>

\* mutant: the slot is released whether or not a new frame came
PublishUnrefAlways ==
    /\ ppc = "publish"
    /\ frame' = [frame EXCEPT ![pidx] = NullFrame]
    /\ IF frames[pidx].data # 0
       THEN /\ ppc' = "ref"
            /\ pidx' = pidx
       ELSE NextSlot
    /\ UNCHANGED <<config, latest, mutex, cloud_vars, keep_working, frames, cycle,
                   published, fresh, consumer_vars, cause, close_vars>>

\* if(frames[i]) av_frame_unref(u->frame[i]);
PublishUnref ==
    /\ ppc = "publish"
    /\ IF frames[pidx].data # 0
       THEN /\ frame' = [frame EXCEPT ![pidx] = NullFrame]
            /\ ppc' = "ref"
            /\ pidx' = pidx
       ELSE /\ NextSlot
            /\ frame' = frame
    /\ UNCHANGED <<config, latest, mutex, cloud_vars, keep_working, frames, cycle,
                   published, fresh, consumer_vars, cause, close_vars>>

\* av_frame_ref(u->frame[i], frames[i]);
PublishRef ==
    /\ ppc = "ref"
    /\ frame' = [frame EXCEPT ![pidx] = frames[pidx]]
    /\ fresh' = TRUE
    /\ NextSlot
    /\ UNCHANGED <<config, latest, mutex, cloud_vars, keep_working, frames, cycle,
                   published, consumer_vars, cause, close_vars>>

\* mutant: the working descriptor is copied over the shared one
SwapCloudsCopies ==
    /\ ppc = "swap"
    /\ IF hardware_unprojector /\ frames[0].data # 0
       THEN /\ point_cloud_shared' = point_cloud
            /\ point_cloud' = point_cloud
       ELSE UNCHANGED <<point_cloud, point_cloud_shared>>
    /\ ppc' = "unlock"
    /\ UNCHANGED <<config, latest, frame, mutex, heap, keep_working, pidx, frames, cycle,
                   published, fresh, consumer_vars, cause, close_vars>>

\* mutant: the clouds are not swapped
SwapCloudsMissing ==
    /\ ppc = "swap"
    /\ UNCHANGED <<point_cloud, point_cloud_shared>>
    /\ ppc' = "unlock"
    /\ UNCHANGED <<config, latest, frame, mutex, heap, keep_working, pidx, frames, cycle,
                   published, fresh, consumer_vars, cause, close_vars>>

\* swap internal and shared point cloud
SwapClouds ==
    /\ ppc = "swap"
    /\ IF hardware_unprojector /\ frames[0].data # 0
       THEN /\ point_cloud_shared' = point_cloud
            /\ point_cloud' = point_cloud_shared
       ELSE UNCHANGED <<point_cloud, point_cloud_shared>>
    /\ ppc' = "unlock"
    /\ UNCHANGED <<config, latest, frame, mutex, heap, keep_working, pidx, frames, cycle,
                   published, fresh, consumer_vars, cause, close_vars>>

\* mutant: keep_working is tested only after a timeout, not after a publish
ProducerUnlockToReceive ==
    /\ ppc = "unlock"
    /\ mutex' \in UnlockOutcomes(Producer)
    /\ frames' = [i \in Streams |-> NullFrame]
    /\ published' = TRUE
    /\ ppc' = "receive"
    /\ UNCHANGED <<config, latest, frame, cloud_vars, keep_working, pidx, cycle, fresh,
                   consumer_vars, cause, close_vars>>

\* mutant: the mutex stays locked into the next iteration
ProducerUnlockMissing ==
    /\ ppc = "unlock"
    /\ mutex' = mutex
    /\ frames' = [i \in Streams |-> NullFrame]
    /\ published' = TRUE
    /\ ppc' = "loop"
    /\ UNCHANGED <<config, latest, frame, cloud_vars, keep_working, pidx, cycle, fresh,
                   consumer_vars, cause, close_vars>>

\* end of the loop body: frame_guard is destroyed
ProducerUnlock ==
    /\ ppc = "unlock"
    /\ mutex' \in UnlockOutcomes(Producer)
    /\ frames' = [i \in Streams |-> NullFrame]
    /\ published' = TRUE
    /\ ppc' = "loop"
    /\ UNCHANGED <<config, latest, frame, cloud_vars, keep_working, pidx, cycle, fresh,
                   consumer_vars, cause, close_vars>>

\* the two messages after the loop, then the thread function returns
ThreadExit ==
    /\ ppc = "exit"
    /\ ppc' = "finished"
    /\ UNCHANGED <<config, latest, frame, mutex, cloud_vars, keep_working, pidx, frames,
                   cycle, published, fresh, consumer_vars, cause, close_vars>>

----------------------------------------------------------------------------
\* the polling threads

\* unhvd_get_frame_begin, unhvd_get_point_cloud_begin, unhvd_get_begin
Variants == {"frames", "cloud", "both"}

WantsFrame(v) == v \in {"frames", "both"}
WantsCloud(v) == v \in {"cloud", "both"}

\* mutant: the early return unlocks the mutex
ReturnNoDataUnlocks(c) ==
    /\ mutex' = 0
    /\ begin_ret' = [begin_ret EXCEPT ![c] = "ERROR"]
    /\ UNCHANGED <<want, out_frame, out_pc, fresh>>

\* if(!new_data) return UNHVD_ERROR; the mutex locked above stays locked
ReturnNoData(c) ==
    /\ mutex' = c
    /\ begin_ret' = [begin_ret EXCEPT ![c] = "ERROR"]
    /\ UNCHANGED <<want, out_frame, out_pc, fresh>>

\* mutant: begin copies the descriptors out without the mutex
ReturnDataNoLock(c, v) ==
    /\ mutex' = mutex
    /\ want' = [want EXCEPT ![c] = v]
    /\ out_frame' = IF WantsFrame(v)
                    THEN [out_frame EXCEPT ![c] = frame]
                    ELSE out_frame
    /\ out_pc' = IF WantsCloud(v) /\ hardware_unprojector
                 THEN [out_pc EXCEPT ![c] = point_cloud_shared]
                 ELSE out_pc
    /\ begin_ret' = [begin_ret EXCEPT ![c] = "OK"]
    /\ fresh' = FALSE

\* the two copy-out blocks and return UNHVD_OK, the mutex stays locked
ReturnData(c, v) ==
    /\ mutex' = c
    /\ want' = [want EXCEPT ![c] = v]
    /\ out_frame' = IF WantsFrame(v)
                    THEN [out_frame EXCEPT ![c] = frame]
                    ELSE out_frame
    /\ out_pc' = IF WantsCloud(v) /\ hardware_unprojector
                 THEN [out_pc EXCEPT ![c] = point_cloud_shared]
                 ELSE out_pc
    /\ begin_ret' = [begin_ret EXCEPT ![c] = "OK"]
    /\ fresh' = FALSE

\* unhvd_get_begin on a live handle: u->mutex.lock() returns once the mutex
\* is free, then the function runs to its return statement
GetBegin(c) ==
    /\ handle # 0
    /\ close_pc = "none"
    /\ cpc[c] = "idle"
    /\ mutex = 0
    /\ cpc' = [cpc EXCEPT ![c] = "held"]
    /\ seen_cause' = [seen_cause EXCEPT ![c] = cause]
    /\ end_error' = end_error
    /\ IF ~NewData
       THEN ReturnNoData(c)
       ELSE \E v \in Variants : ReturnData(c, v)
    /\ UNCHANGED <<config, latest, frame, cloud_vars, keep_working, ppc, pidx, frames,
                   cycle, published, cause, close_vars>>

\* mutant: only the first slot is released
EndUnrefFirstOnly == frame' = [frame EXCEPT ![0] = NullFrame]

\* mutant: no slot is released
EndUnrefMissing == frame' = frame

\* for(int i=0;i<u->decoders;++i) av_frame_unref(u->frame[i]);
EndUnref == frame' = [i \in Streams |-> NullFrame]

\* mutant: the mutex is not unlocked
EndUnlockMissing(c) == mutex' = mutex

\* u->mutex.unlock();
EndUnlock(c) == mutex' \in UnlockOutcomes(c)

\* unhvd_get_end (unhvd_get_frame_end, unhvd_get_point_cloud_end); the
\* descriptors handed out by begin are valid only until this call
GetEnd(c) ==
    /\ handle # 0
    /\ cpc[c] = "held"
    \* the call is made after every begin, or only after UNHVD_OK
    /\ protocol = "end_always" \/ begin_ret[c] = "OK"
    /\ EndUnref
    /\ EndUnlock(c)
    /\ cpc' = [cpc EXCEPT ![c] = "idle"]
    /\ want' = [want EXCEPT ![c] = "none"]
    /\ out_frame' = [out_frame EXCEPT ![c] = [i \in Streams |-> UntouchedFrame]]
    /\ out_pc' = [out_pc EXCEPT ![c] = UntouchedCloud]
    /\ begin_ret' = [begin_ret EXCEPT ![c] = "NONE"]
    /\ seen_cause' = [seen_cause EXCEPT ![c] = "none"]
    /\ end_error' = end_error
    /\ latest' = [latest EXCEPT !.frame = [i \in Streams |-> NullFrame]]
    /\ UNCHANGED <<config, cloud_vars, keep_working, ppc, pidx, frames, cycle,
                   published, fresh, cause, close_vars>>

\* a caller that takes UNHVD_ERROR to mean that nothing is to be ended goes
\* on without calling unhvd_get_end; the mutex locked at line 192 stays
\* locked by this thread
ReturnWithoutEnd(c) ==
    /\ handle # 0
    /\ protocol = "end_after_ok"
    /\ cpc[c] = "held"
    /\ begin_ret[c] = "ERROR"
    /\ cpc' = [cpc EXCEPT ![c] = "idle"]
    /\ begin_ret' = [begin_ret EXCEPT ![c] = "NONE"]
    /\ seen_cause' = [seen_cause EXCEPT ![c] = "none"]
    /\ UNCHANGED <<config, latest, frame, mutex, cloud_vars, keep_working, ppc, pidx,
                   frames, cycle, published, fresh, want, out_frame, out_pc,
                   end_error, cause, close_vars>>

\* mutant: the mutex is locked before the handle is looked at
BeginNullLocks(c) ==
    /\ mutex' = c
    /\ begin_ret' = [begin_ret EXCEPT ![c] = "ERROR"]
    /\ UNCHANGED <<cpc, want, out_frame, out_pc, seen_cause>>

\* if(u == NULL) return UNHVD_ERROR; in unhvd_get_begin
BeginNull(c) ==
    /\ mutex' = mutex
    /\ begin_ret' = [begin_ret EXCEPT ![c] = "ERROR"]
    /\ UNCHANGED <<cpc, want, out_frame, out_pc, seen_cause>>

\* unhvd_get_begin with the NULL handle
GetBeginNull(c) ==
    /\ handle = 0
    /\ BeginNull(c)
    /\ end_error' = end_error
    /\ UNCHANGED <<config, latest, frame, cloud_vars, keep_working, ppc, pidx, frames,
                   cycle, published, fresh, cause, close_vars>>

\* unhvd_get_end with the NULL handle: if(u == NULL) return UNHVD_ERROR;
GetEndNull(c) ==
    /\ handle = 0
    /\ end_error' = TRUE
    /\ begin_ret' = [begin_ret EXCEPT ![c] = "NONE"]
    /\ UNCHANGED <<config, latest, frame, mutex, cloud_vars, keep_working, ppc, pidx,
                   frames, cycle, published, fresh, cpc, want, out_frame,
                   out_pc, seen_cause, cause, close_vars>>

----------------------------------------------------------------------------
\* unhvd_close, called by the owner once its polling loops have returned

\* u->keep_working=false; the caller is then at network_thread.join()
CloseStart ==
    /\ handle # 0
    /\ close_pc = "none"
    /\ \A c \in Consumers : cpc[c] = "idle"
    /\ keep_working' = FALSE
    /\ close_pc' = "joining"
    /\ UNCHANGED <<config, latest, frame, mutex, cloud_vars, ppc, pidx, frames, cycle,
                   published, fresh, consumer_vars, cause, after_free>>

\* mutant: the frames and arrays are freed without the join
CloseJoinNoWait ==
    /\ close_pc = "joining"
    /\ frame' = [i \in Streams |-> NullFrame]
    /\ heap' = Delete(Delete(Delete(Delete(heap, point_cloud.data),
                 point_cloud.colors), point_cloud_shared.data),
                 point_cloud_shared.colors)
    /\ point_cloud' = EmptyCloud
    /\ point_cloud_shared' = EmptyCloud
    /\ close_pc' = "closed"
    /\ UNCHANGED <<config, latest, mutex, keep_working, ppc, pidx, frames, cycle,
                   published, fresh, consumer_vars, cause, after_free>>

\* join returns; frames freed, the four arrays deleted, the object deleted
CloseJoin ==
    /\ close_pc = "joining"
    /\ ppc = "finished"
    /\ frame' = [i \in Streams |-> NullFrame]
    /\ heap' = Delete(Delete(Delete(Delete(heap, point_cloud.data),
                 point_cloud.colors), point_cloud_shared.data),
                 point_cloud_shared.colors)
    /\ point_cloud' = EmptyCloud
    /\ point_cloud_shared' = EmptyCloud
    /\ close_pc' = "closed"
    /\ UNCHANGED <<config, latest, mutex, keep_working, ppc, pidx, frames, cycle,
                   published, fresh, consumer_vars, cause, after_free>>

\* unhvd_close with the NULL handle: if(u == NULL) return;
CloseNull ==
    /\ handle = 0
    /\ close_pc' = "returned"
    /\ UNCHANGED <<config, latest, frame, mutex, cloud_vars, keep_working, ppc, pidx,
                   frames, cycle, published, fresh, consumer_vars, cause,
                   after_free>>

\* what a second unhvd_close of the same handle does with the deleted
\* object: line 277 writes u->keep_working, then every member read is a read
\* of freed memory. The behaviour is undefined; the outcomes kept here are a
\* fault at the first access, a run over the object as the first call left
\* it (thread not joinable, frame pointers NULL, array pointers dangling),
\* and a run over memory that has been reused since
CloseAgainOutcomes ==
    { {"keep_working"},
      {"keep_working", "nhvd_close", "hdu_close", "delete_arrays", "delete_u"},
      {"keep_working", "join", "nhvd_close", "av_frame_free", "hdu_close",
       "delete_arrays", "delete_u"} }

\* unhvd_close called again with the handle of a closed object
CloseAgain ==
    /\ handle # 0
    /\ close_pc = "closed"
    /\ after_free = {}
    /\ after_free' \in CloseAgainOutcomes
    /\ UNCHANGED <<config, latest, frame, mutex, cloud_vars, keep_working, ppc, pidx,
                   frames, cycle, published, fresh, consumer_vars, cause,
                   close_pc>>

----------------------------------------------------------------------------
ProducerStep ==
    \/ LoopCondition
    \/ ReceiveTimeout
    \/ ReceiveError
    \/ ReceiveFrames
    \/ ProducerLock
    \/ PublishUnref
    \/ PublishRef
    \/ SwapClouds
    \/ ProducerUnlock
    \/ ThreadExit

Next ==
    \/ ProducerStep
    \/ \E c \in Consumers : GetBegin(c)
    \/ \E c \in Consumers : GetEnd(c)
    \/ \E c \in Consumers : GetBeginNull(c)
    \/ \E c \in Consumers : GetEndNull(c)
    \/ CloseStart
    \/ CloseJoin
    \/ CloseNull
    \/ CloseAgain

Spec == Init /\ [][Next]_vars

\* the polling threads may also go on without an end call after UNHVD_ERROR
NextP ==
    \/ Next
    \/ \E c \in Consumers : ReturnWithoutEnd(c)

SpecP == InitP /\ [][NextP]_vars

\* every thread that can run does run: the decoder thread (each call of
\* nhvd_receive returns), the join in unhvd_close, and the end call of a
\* polling thread that means to make one
FairSpecP ==
    /\ SpecP
    /\ WF_vars(ProducerStep)
    /\ WF_vars(CloseJoin)
    /\ \A c \in Consumers : WF_vars(GetEnd(c))

----------------------------------------------------------------------------
\* a polling thread is between a begin that returned UNHVD_OK and its end
InWindow(c) == cpc[c] = "held" /\ begin_ret[c] = "OK"

\* the positions of the decoder thread inside its locked block
LockedBlock == {"publish", "ref", "swap", "unlock"}

AllSlotsNull == \A i \in Streams : frame[i] = NullFrame

\* the elements [used, size) of the array at address a are zero
TailZero(a, size, used) ==
    a # 0 => /\ Len(heap[a].mem) = size
             /\ \A i \in 1..size : i > used => heap[a].mem[i] = 0

----------------------------------------------------------------------------
\* C1: while a polling thread is between a begin that returned UNHVD_OK and
\* its end, the decoder thread is outside its locked block and no step
\* changes a frame slot, the published point-cloud descriptor or the arrays
\* it points to; the descriptors the begin call copied out equal the slots
\* and the published descriptor, so they all come from one publish state.
C1_WindowStable ==
    /\ [](\A c \in Consumers : InWindow(c) =>
            /\ ppc \notin LockedBlock
            /\ WantsFrame(want[c]) => out_frame[c] = frame
            /\ (WantsCloud(want[c]) /\ hardware_unprojector) =>
                   out_pc[c] = point_cloud_shared)
    /\ [][\A c \in Consumers : (InWindow(c) /\ (InWindow(c))') =>
            /\ frame' = frame
            /\ point_cloud_shared' = point_cloud_shared
            /\ point_cloud_shared.data # 0 =>
                 /\ heap'[point_cloud_shared.data] = heap[point_cloud_shared.data]
                 /\ heap'[point_cloud_shared.colors] = heap[point_cloud_shared.colors]
       ]_vars

\* C1 witness: a polling thread is inside its window while the decoder thread
\* waits for the mutex with a newly received frame
C1_Witness ==
    \E c \in Consumers :
        /\ InWindow(c)
        /\ ppc = "lock"
        /\ \E i \in Streams : frames[i].data # 0

\* C2 as stated: after a begin that returned UNHVD_ERROR for lack of a live
\* frame the caller does not hold the mutex.
C2_Original ==
    \A c \in Consumers :
        (cpc[c] = "held" /\ begin_ret[c] = "ERROR") => mutex # c

\* C2 amended: a begin that finds no live frame returns UNHVD_ERROR with the
\* mutex still held by the caller (every slot being empty); the mutex is
\* released only by the end call that follows.
C2_Amended ==
    \A c \in Consumers :
        (cpc[c] = "held" /\ begin_ret[c] = "ERROR") =>
            /\ mutex = c
            /\ AllSlotsNull
            /\ ppc \notin LockedBlock

\* C2 witness: begin has returned UNHVD_ERROR and the decoder thread, with a
\* frame to publish, waits for the mutex
C2_Witness ==
    \E c \in Consumers :
        /\ cpc[c] = "held"
        /\ begin_ret[c] = "ERROR"
        /\ ppc = "lock"
        /\ \E i \in Streams : frames[i].data # 0

\* C3: before the decoder thread has finished a locked block, no begin call
\* has returned UNHVD_OK and no begin call has written to the caller's frame
\* or point-cloud descriptors.
C3_NothingBeforePublish ==
    ~published =>
        \A c \in Consumers :
            /\ begin_ret[c] # "OK"
            /\ \A i \in Streams : out_frame[c][i] = UntouchedFrame
            /\ out_pc[c] = UntouchedCloud

\* C3 witness: a begin call has returned before the first publish finished,
\* while frames were already received
C3_Witness ==
    /\ ~published
    /\ cycle > 0
    /\ \E c \in Consumers : cpc[c] = "held" /\ begin_ret[c] = "ERROR"

\* C4: the end call that closes a window empties every slot and leaves the
\* mutex unlocked, whichever outputs the begin call was asked for.
C4_EndReleases ==
    [][\A c \in Consumers : (InWindow(c) /\ cpc'[c] = "idle") =>
            /\ \A i \in Streams : frame'[i] = NullFrame
            /\ mutex' = 0
      ]_vars

\* C4 witness: a cloud, hence a frame, was published and delivered, the end
\* call that closed the window has returned, and the decoder thread holds
\* the mutex again
C4_Witness ==
    /\ \A c \in Consumers : cpc[c] = "idle"
    /\ ~fresh
    /\ point_cloud_shared.data # 0
    /\ AllSlotsNull
    /\ mutex = Producer

\* C5: with every begin call followed by one end call of the same thread, a
\* thread holds the mutex from the return of begin (UNHVD_OK or UNHVD_ERROR)
\* to its end call, and at no other time: end unlocks a mutex its caller
\* holds and leaves it released, and begin never waits for a mutex its own
\* thread holds.
C5_EndHoldsMutex ==
    protocol = "end_always" =>
        \A c \in Consumers :
            /\ cpc[c] = "held" => mutex = c
            /\ cpc[c] = "idle" => mutex # c

\* C5 witness: a window was opened and closed by its end call, the next
\* begin call returned UNHVD_ERROR, and its caller holds the mutex while the
\* decoder thread waits for it with the next depth frame
C5_Witness ==
    \E c \in Consumers :
        /\ protocol = "end_always"
        /\ cpc[c] = "held"
        /\ begin_ret[c] = "ERROR"
        /\ mutex = c
        /\ ~fresh
        /\ point_cloud_shared.data # 0
        /\ ppc = "lock"
        /\ frames[0].data # 0

\* C6 as stated: every descriptor written by a begin call that returned
\* UNHVD_OK with frames requested has a non-null first plane.
C6_Original ==
    \A c \in Consumers :
        (InWindow(c) /\ WantsFrame(want[c])) =>
            \A i \in Streams : out_frame[c][i].data # 0

\* C6 amended: a begin call that returned UNHVD_OK with frames requested has
\* written at least one descriptor with a non-null first plane; the others
\* may be null, and a descriptor with a null first plane is the empty frame.
C6_Amended ==
    \A c \in Consumers :
        (InWindow(c) /\ WantsFrame(want[c])) =>
            /\ \E i \in Streams : out_frame[c][i].data # 0
            /\ \A i \in Streams :
                 out_frame[c][i].data = 0 => out_frame[c][i] = NullFrame

\* C6 witness: with two decoders, one descriptor handed out is live and the
\* other is empty
C6_Witness ==
    \E c \in Consumers :
        /\ InWindow(c)
        /\ WantsFrame(want[c])
        /\ decoders > 1
        /\ out_frame[c][0].data = 0
        /\ out_frame[c][1].data # 0

\* C7 as stated: without an unprojector, no unhvd_get_point_cloud_begin call
\* returns UNHVD_OK.
C7_Claim ==
    ~hardware_unprojector =>
        \A c \in Consumers : ~(InWindow(c) /\ want[c] = "cloud")

\* C8: a begin call returns UNHVD_OK exactly when some slot holds a frame
\* with a non-null first plane; a slot holds such a frame only if one was
\* stored after the last UNHVD_OK or the window of that UNHVD_OK is still
\* open; and a begin call returns UNHVD_OK only if a frame was stored since
\* the last UNHVD_OK.
C8_NewDataOnce ==
    /\ [](\A c \in Consumers :
            cpc[c] = "held" => (begin_ret[c] = "OK" <=> NewData))
    /\ [](NewData => (fresh \/ \E c \in Consumers : InWindow(c)))
    /\ [][\A c \in Consumers : (~InWindow(c) /\ (InWindow(c))') => fresh]_vars

\* C8 witness: a cloud, hence a frame, was published and delivered, and the
\* next begin call, with nothing stored in between, returned UNHVD_ERROR
C8_Witness ==
    \E c \in Consumers :
        /\ cpc[c] = "held"
        /\ begin_ret[c] = "ERROR"
        /\ ~fresh
        /\ point_cloud_shared.data # 0

\* C9 as stated: with an unprojector, the point-cloud descriptor written by
\* a begin call that returned UNHVD_OK has non-null arrays and describes the
\* cloud of a depth frame published since the last end call.
C9_Claim ==
    hardware_unprojector =>
        \A c \in Consumers :
            (InWindow(c) /\ WantsCloud(want[c])) =>
                /\ out_pc[c].data # 0
                /\ out_pc[c].colors # 0
                /\ frame[0].data # 0
                /\ heap[out_pc[c].data].src = frame[0].data

\* C10: every point-cloud descriptor written by a begin call has
\* 0 <= used <= size, arrays of `size` elements when size > 0, and zero
\* elements in [used, size) of both arrays.
C10_TailZero ==
    \A c \in Consumers :
        (InWindow(c) /\ out_pc[c] # UntouchedCloud) =>
            /\ 0 <= out_pc[c].used
            /\ out_pc[c].used <= out_pc[c].size
            /\ out_pc[c].size > 0 => (out_pc[c].data # 0 /\ out_pc[c].colors # 0)
            /\ TailZero(out_pc[c].data, out_pc[c].size, out_pc[c].used)
            /\ TailZero(out_pc[c].colors, out_pc[c].size, out_pc[c].used)

\* C10 witness: the cloud of the third depth frame, written into the arrays
\* the first one used, is handed out with one of its two elements used
C10_Witness ==
    \E c \in Consumers :
        /\ InWindow(c)
        /\ out_pc[c] # UntouchedCloud
        /\ out_pc[c].size = 2
        /\ out_pc[c].used = 1
        /\ heap[out_pc[c].data].src = 3

----------------------------------------------------------------------------
\* the decoder thread goes through unhvd_unproject_depth_frame and succeeds
UnprojectStep ==
    /\ ppc = "receive"
    /\ ppc' = "lock"
    /\ hardware_unprojector
    /\ frames'[0].data # 0

\* the successful unprojection of this step allocated the arrays it wrote
Reallocated ==
    /\ heap'[point_cloud'.data].born = frames'[0].data
    /\ heap'[point_cloud'.colors].born = frames'[0].data

\* the swap at the end of the locked block, in a cycle with a depth frame
SwapStep ==
    /\ ppc = "swap"
    /\ ppc' = "unlock"
    /\ hardware_unprojector
    /\ frames[0].data # 0

Clouds == {point_cloud, point_cloud_shared}

\* the addresses of the arrays a set of descriptors points to
Arrays(pcs) == UNION {{pc.data, pc.colors} : pc \in pcs} \ {0}

\* C11 as stated: the arrays are reallocated only when the size of the depth
\* frame differs from the capacity of the working cloud, and never when the
\* size equals the size of the cloud published just before.
C11_Original ==
    [][UnprojectStep =>
         LET size == frames'[0].width * frames'[0].height
         IN /\ Reallocated => size # point_cloud.size
            /\ (point_cloud_shared.data # 0 /\ size = point_cloud_shared.size)
                  => ~Reallocated
      ]_vars

\* C11 amended: an unprojection allocates both arrays anew exactly when the
\* size of the depth frame differs from the capacity of the working cloud
\* (the cloud that was swapped out by the last publish, or the empty one);
\* otherwise it writes into the arrays the working cloud already has.  The
\* size of the cloud published just before plays no part.
C11_Amended ==
    [][UnprojectStep =>
         LET size == frames'[0].width * frames'[0].height
         IN /\ Reallocated <=> size # point_cloud.size
            /\ ~Reallocated =>
                 /\ point_cloud'.data = point_cloud.data
                 /\ point_cloud'.colors = point_cloud.colors
                 /\ heap'[point_cloud'.data].born = heap[point_cloud.data].born
                 /\ heap'[point_cloud'.colors].born = heap[point_cloud.colors].born
            /\ Arrays({point_cloud}) \cap Arrays({point_cloud_shared}) = {}
            /\ \A a \in Arrays({point_cloud_shared}) : heap'[a] = heap[a]
      ]_vars

\* C11 witness: three depth frames of one size; the second was unprojected
\* into new arrays although the first had the same size, the third into the
\* arrays of the first
C11_Witness ==
    /\ ppc = "lock"
    /\ frames[0].data = 3
    /\ point_cloud.data # 0
    /\ heap[point_cloud.data].born = 1
    /\ heap[point_cloud.data].src = 3
    /\ point_cloud_shared.data # 0
    /\ heap[point_cloud_shared.data].born = 2
    /\ point_cloud_shared.size = point_cloud.size

\* C12: both clouds have arrays of exactly `size` elements (none when size
\* is 0), no array is allocated that neither cloud points to, and the swap
\* of a cycle with a depth frame of width W and height H publishes a cloud
\* of size W*H.
C12_Capacity ==
    /\ [](close_pc # "closed" =>
            /\ \A pc \in Clouds :
                 /\ pc.size = 0 <=> pc.data = 0
                 /\ pc.data = 0 <=> pc.colors = 0
                 /\ pc.data # 0 =>
                      /\ Len(heap[pc.data].mem) = pc.size
                      /\ Len(heap[pc.colors].mem) = pc.size
            /\ {a \in Addr : heap[a] # FreeCell} = Arrays(Clouds))
    /\ [][SwapStep =>
            point_cloud_shared'.size = frames[0].width * frames[0].height]_vars

\* C12 witness: the third depth frame has one pixel; its cloud was allocated
\* at the address of the two-element arrays of the first depth frame, which
\* were freed for it, and is published
C12_Witness ==
    /\ ppc = "unlock"
    /\ point_cloud_shared.size = 1
    /\ point_cloud_shared.data = 1
    /\ heap[1].born = 3
    /\ point_cloud.data # 0
    /\ point_cloud.size = 2

\* the decoder thread is past its loop
Ended == {"exit", "finished"}

\* C13 as stated: a begin call that returns after nhvd_receive has returned
\* NHVD_ERROR returns UNHVD_ERROR.
C13_Original ==
    \A c \in Consumers :
        (cpc[c] = "held" /\ seen_cause[c] = "error") => begin_ret[c] = "ERROR"

\* C13 amended: once nhvd_receive has returned NHVD_ERROR the decoder thread
\* is past its loop: it receives nothing more, never takes the mutex, and no
\* slot or published cloud changes except that end calls empty the slots.
\* A begin call that returns after the error returns UNHVD_OK exactly when a
\* frame stored before the error has not been delivered yet, and it hands
\* out frames received before the error; nothing becomes fresh again.
C13_Amended ==
    /\ [](cause = "error" => ppc \in Ended /\ mutex # Producer)
    /\ [](\A c \in Consumers :
            (InWindow(c) /\ seen_cause[c] = "error") =>
                \A i \in Streams : frame[i].data <= cycle)
    /\ [][cause = "error" =>
            /\ cause' = "error"
            /\ cycle' = cycle
            /\ frames' = frames
            /\ \A i \in Streams : frame'[i] = frame[i] \/ frame'[i] = NullFrame
            /\ point_cloud_shared' = point_cloud_shared \/ close_pc' = "closed"
            /\ fresh' => fresh
            /\ \A c \in Consumers :
                 (cpc[c] = "idle" /\ cpc'[c] = "held") =>
                     (begin_ret'[c] = "OK" <=> fresh)
       ]_vars

\* C13 witness: a begin call made after the fatal error has returned
\* UNHVD_OK with the last frame published before the error
C13_Witness ==
    \E c \in Consumers :
        /\ InWindow(c)
        /\ seen_cause[c] = "error"
        /\ ppc = "finished"
        /\ \E i \in Streams : frame[i].data = cycle

\* C14: the step in which unhvd_unproject_depth_frame rejects a frame leaves
\* the mutex, the slots, both clouds and their arrays as they were and ends
\* the loop; afterwards the decoder thread receives nothing, never takes the
\* mutex, stores no frame and swaps no cloud, and no slot ever holds a frame
\* of the rejected cycle.
C14_RejectEnds ==
    /\ [](cause = "rejected" =>
            /\ ppc \in Ended
            /\ mutex # Producer
            /\ \A i \in Streams : frame[i].data # cycle)
    /\ [][(cause = "none" /\ cause' = "rejected") =>
            /\ ppc = "receive"
            /\ cycle' = cycle + 1
            /\ mutex' = mutex
            /\ frame' = frame
            /\ point_cloud' = point_cloud
            /\ point_cloud_shared' = point_cloud_shared
            /\ heap' = heap
       ]_vars
    /\ [][cause = "rejected" =>
            /\ cause' = "rejected"
            /\ cycle' = cycle
            /\ \A i \in Streams : frame'[i] = frame[i] \/ frame'[i] = NullFrame
            /\ \/ close_pc' = "closed"
               \/ /\ point_cloud' = point_cloud
                  /\ point_cloud_shared' = point_cloud_shared
                  /\ heap' = heap
       ]_vars

\* C14 witness: the third depth frame was rejected after two clouds were
\* published; the thread has finished and both clouds are as they were
C14_Witness ==
    /\ cause = "rejected"
    /\ ppc = "finished"
    /\ cycle = 3
    /\ point_cloud.data # 0
    /\ point_cloud_shared.data # 0
    /\ heap[point_cloud_shared.data].src = 2
    /\ heap[point_cloud.data].src = 1

\* C15: calling unhvd_close again with the handle of a closed object joins
\* nothing, frees nothing and reads or writes nothing of the deleted object.
C15_SafeToRepeat == after_free = {}

\* C17: with the NULL handle unhvd_get_begin and unhvd_get_end return
\* UNHVD_ERROR and change nothing: the mutex is neither locked nor unlocked,
\* no slot is released, no window opens and the descriptors of the caller
\* are not written.
C17_NullHandle ==
    /\ [](handle = 0 =>
            /\ mutex = 0
            /\ \A c \in Consumers :
                 /\ cpc[c] = "idle"
                 /\ begin_ret[c] \in {"NONE", "ERROR"}
                 /\ out_pc[c] = UntouchedCloud
                 /\ \A i \in Streams : out_frame[c][i] = UntouchedFrame)
    /\ [][handle = 0 =>
            UNCHANGED <<mutex, frame, cloud_vars, cpc, want, out_frame, out_pc,
                        keep_working, ppc>>
       ]_vars

\* C17 witness: with the NULL handle an end call has returned, and a begin
\* call after it
C17_Witness ==
    /\ handle = 0
    /\ end_error
    /\ \E c \in Consumers : begin_ret[c] = "ERROR"

\* C16 as stated: with unhvd_get_end called after every begin that returned
\* UNHVD_OK and after none that returned UNHVD_ERROR, the join of unhvd_close
\* returns.
C16_Original ==
    (protocol = "end_after_ok" /\ close_pc = "joining") ~> (close_pc = "closed")

\* C16 amended: with unhvd_get_end called after every begin, whatever it
\* returned, the decoder thread finishes and the join of unhvd_close
\* returns; once keep_working is false the thread does not enter another
\* iteration, so it receives at most once more.
C16_Amended ==
    /\ (protocol = "end_always" /\ close_pc = "joining") ~>
           (ppc = "finished" /\ close_pc = "closed")
    /\ [][~keep_working => ~(ppc = "loop" /\ ppc' = "receive")]_vars

\* C16 witness: unhvd_close has returned after waiting for an iteration
\* that was in progress when keep_working was cleared, and that iteration
\* published its frame
C16_Witness ==
    /\ protocol = "end_always"
    /\ close_pc = "closed"
    /\ cause = "stopped"
    /\ cycle = MaxCycles
    /\ fresh

\* C18 as stated: with several polling threads that call unhvd_get_end after
\* a begin that returned UNHVD_OK and not after one that returned
\* UNHVD_ERROR, a locked mutex is unlocked again, so that no begin call
\* waits forever.
C18_Original ==
    (protocol = "end_after_ok" /\ mutex # 0) ~> (mutex = 0)

\* C18 amended: with several polling threads at most one is between a begin
\* that returned UNHVD_OK and its end, and every end call after such a begin
\* is made by the thread that holds the mutex; when every begin, whatever it
\* returned, is followed by its end, a locked mutex is unlocked again, so
\* that no begin call waits forever.
C18_Amended ==
    /\ [](\A c, d \in Consumers : (InWindow(c) /\ InWindow(d)) => c = d)
    /\ [][\A c \in Consumers :
            (InWindow(c) /\ cpc'[c] = "idle") => (mutex = c /\ mutex' = 0)
       ]_vars
    /\ (protocol = "end_always" /\ mutex # 0) ~> (mutex = 0)

\* C18 witness: one polling thread is inside a window with the second or a
\* later frame while the other is outside
C18_Witness ==
    \E c, d \in Consumers :
        /\ c # d
        /\ protocol = "end_always"
        /\ cpc[c] = "idle"
        /\ published
        /\ ~fresh
        /\ InWindow(d)
        /\ mutex = d
        /\ \E i \in Streams : frame[i].data >= 2

\* C19 as stated: the decoder thread never waits for the mutex while a
\* polling thread holds it between begin and end.
C19_Original ==
    ~(ppc = "lock" /\ \E c \in Consumers : cpc[c] = "held" /\ mutex = c)

\* C19 amended: the decoder thread can always take its next step except at
\* the lock_guard before the publish, where it waits exactly as long as a
\* polling thread holds the mutex; the condition of the loop, nhvd_receive
\* and the unprojection never wait for a polling thread.
C19_Amended ==
    handle # 0 =>
        (ENABLED ProducerStep <=>
            (ppc # "finished" /\ ~(ppc = "lock" /\ mutex \in Consumers)))

\* C19 witness: the decoder thread has received and unprojected the second
\* depth frame while a polling thread stays in its window with the first,
\* and now waits for the mutex
C19_Witness ==
    \E c \in Consumers :
        /\ InWindow(c)
        /\ mutex = c
        /\ WantsCloud(want[c])
        /\ ppc = "lock"
        /\ frames[0].data = 2
        /\ point_cloud.data # 0
        /\ heap[point_cloud.data].src = 2
        /\ out_pc[c].data # 0
        /\ heap[out_pc[c].data].src = 1

\* C20: the decoder thread holds the mutex exactly in the block from the
\* lock_guard to the end of the loop body; the step that receives and
\* unprojects is taken without it, and while the thread holds the mutex
\* nothing is received and no array is allocated, freed or written: only
\* the slots are replaced and the two descriptors swapped.
C20_OutsideLock ==
    /\ [](mutex = Producer <=> ppc \in LockedBlock)
    /\ [][(ppc = "receive" \/ cycle' # cycle) =>
            (mutex # Producer /\ mutex' # Producer)
       ]_vars
    /\ [][mutex = Producer =>
            /\ cycle' = cycle
            /\ heap' = heap
            /\ \/ <<point_cloud, point_cloud_shared>>' =
                      <<point_cloud, point_cloud_shared>>
               \/ <<point_cloud, point_cloud_shared>>' =
                      <<point_cloud_shared, point_cloud>>
       ]_vars

\* C20 witness: the decoder thread has published the first cloud, released
\* the mutex and unprojected the second depth frame without it
C20_Witness ==
    /\ ppc = "lock"
    /\ mutex = 0
    /\ published
    /\ hardware_unprojector
    /\ frames[0].data = 2
    /\ point_cloud.data # 0
    /\ heap[point_cloud.data].src = 2
    /\ point_cloud_shared.data # 0
    /\ heap[point_cloud_shared.data].src = 1

\* C21: with an unprojector, outside the locked block of the decoder thread
\* a live depth slot and the published cloud belong together: the arrays of
\* point_cloud_shared were last written from the depth frame in slot 0. So a
\* begin call that returns UNHVD_OK and writes both outputs with a non-null
\* depth plane writes the cloud unprojected from that depth frame.
C21_Together ==
    hardware_unprojector =>
        /\ (mutex # Producer /\ close_pc # "closed" /\ frame[0].data # 0) =>
              /\ point_cloud_shared.data # 0
              /\ point_cloud_shared.colors # 0
              /\ heap[point_cloud_shared.data].src = frame[0].data
              /\ heap[point_cloud_shared.colors].src = frame[0].data
        /\ \A c \in Consumers :
              (InWindow(c) /\ want[c] = "both" /\ out_frame[c][0].data # 0) =>
                  /\ out_pc[c].data # 0
                  /\ out_pc[c].colors # 0
                  /\ heap[out_pc[c].data].src = out_frame[c][0].data
                  /\ heap[out_pc[c].colors].src = out_frame[c][0].data

\* C21 witness: a begin call has handed out the second depth frame and its
\* cloud while the decoder thread has already unprojected the third depth
\* frame into the working cloud
C21_Witness ==
    \E c \in Consumers :
        /\ InWindow(c)
        /\ want[c] = "both"
        /\ hardware_unprojector
        /\ out_frame[c][0].data = 2
        /\ out_pc[c].data > 0
        /\ heap[out_pc[c].data].src = 2
        /\ ppc = "lock"
        /\ frames[0].data = 3
        /\ point_cloud.data > 0
        /\ heap[point_cloud.data].src = 3

\* C22: while the decoder thread holds the mutex a slot changes only at the
\* index of the publish loop and only if that stream delivered a frame: the
\* slot is first emptied and then takes the new frame. At the end of the
\* block every stream that delivered a frame has it in its slot. Without a
\* depth frame the block leaves both cloud descriptors as they are, and it
\* never changes the arrays.
C22_PublishExact ==
    /\ [](ppc \in {"swap", "unlock"} =>
            \A i \in Streams : frames[i].data # 0 => frame[i] = frames[i])
    /\ [][mutex = Producer =>
            /\ heap' = heap
            /\ \A i \in Streams :
                 frame'[i] # frame[i] =>
                     /\ i = pidx
                     /\ frames[i].data # 0
                     /\ \/ ppc = "publish" /\ frame'[i] = NullFrame
                        \/ ppc = "ref" /\ frame'[i] = frames[i]
            /\ (~hardware_unprojector \/ frames[0].data = 0) =>
                     /\ point_cloud_shared' = point_cloud_shared
                     /\ point_cloud' = point_cloud
       ]_vars

\* C22 witness: the second publish brought a texture frame and no depth
\* frame; slot 0 still holds the first depth frame and the published cloud
\* is still the one unprojected from it
C22_Witness ==
    /\ decoders = 2
    /\ hardware_unprojector
    /\ ppc = "unlock"
    /\ frames[0].data = 0
    /\ frames[1].data = 2
    /\ frame[0].data = 1
    /\ frame[1].data = 2
    /\ point_cloud_shared.data > 0
    /\ heap[point_cloud_shared.data].src = 1

\* C23: unhvd_close frees the frames and deletes the arrays only after the
\* decoder thread has returned. While the caller waits in join every array
\* of the two clouds stays allocated and unhvd_close changes nothing; the
\* step that frees is taken with the thread finished, and a finished thread
\* takes no further step.
C23_CloseOrder ==
    /\ [](close_pc = "joining" =>
            \A a \in Arrays(Clouds) : heap[a] # FreeCell)
    /\ [](close_pc = "closed" =>
            /\ ppc = "finished"
            /\ AllSlotsNull
            /\ \A a \in Addr : heap[a] = FreeCell)
    /\ [][(close_pc = "joining" /\ close_pc' = "closed") =>
            (ppc = "finished" /\ ~keep_working)
       ]_vars
    /\ [][ppc = "finished" =>
            (ppc' = "finished" /\ frames' = frames /\ cycle' = cycle)
       ]_vars

\* C23 witness: unhvd_close has returned; it released a frame that no
\* polling thread had retrieved and deleted the arrays of two clouds
C23_Witness ==
    /\ close_pc = "closed"
    /\ hardware_unprojector
    /\ cause = "stopped"
    /\ cycle = 2
    /\ fresh
    /\ AllSlotsNull
    /\ point_cloud_shared = EmptyCloud
    /\ \A a \in Addr : heap[a] = FreeCell

\* how far the decoder thread is in its last iteration
Progress(p) ==
    CASE p = "receive" -> 0
      [] p = "lock" -> 1
      [] p \in {"publish", "ref", "swap"} -> 2
      [] p = "unlock" -> 3
      [] p = "loop" -> 4
      [] p = "exit" -> 5
      [] OTHER -> 6

\* C24: once keep_working is false the decoder thread only moves forward
\* through the iteration it is in: from a receive call in progress to at
\* most one publish, then to the condition of the loop and out of the loop.
\* It never goes from the condition to another receive call, so a timeout,
\* which leads to the condition, is followed by the exit with no publish.
C24_LastIteration ==
    /\ [][~keep_working => Progress(ppc') >= Progress(ppc)]_vars
    /\ [][(~keep_working /\ ppc = "loop" /\ ppc' # ppc) =>
            (ppc' = "exit" /\ cause' = "stopped")
       ]_vars
    /\ [][(~keep_working /\ ppc = "receive" /\ ppc' = "loop") =>
            (frame' = frame /\ mutex' = mutex
                /\ point_cloud_shared' = point_cloud_shared)
       ]_vars
    /\ [](cause = "stopped" => ~keep_working /\ ppc \in Ended)

\* C24 witness: keep_working is false and the decoder thread is storing the
\* frame of the iteration that was in progress
C24_Witness ==
    /\ close_pc = "joining"
    /\ ~keep_working
    /\ ppc = "ref"
    /\ frames[pidx].data = 2
    /\ mutex = Producer

\* C25: outside the locked block of the decoder thread each slot holds the
\* frame its stream was last published with since the last end call, or
\* none, and the arrays of point_cloud_shared hold the cloud of the last
\* published depth frame. A begin call that returns UNHVD_OK hands out
\* exactly these: frames published earlier and overwritten are not seen.
C25_Latest ==
    /\ (mutex # Producer /\ close_pc # "closed") =>
          /\ frame = latest.frame
          /\ hardware_unprojector =>
                IF latest.cloud = 0 THEN point_cloud_shared = EmptyCloud
                ELSE /\ point_cloud_shared.data # 0
                     /\ heap[point_cloud_shared.data].src = latest.cloud
                     /\ heap[point_cloud_shared.colors].src = latest.cloud
    /\ \A c \in Consumers : InWindow(c) =>
          /\ WantsFrame(want[c]) => out_frame[c] = latest.frame
          /\ (WantsCloud(want[c]) /\ hardware_unprojector) =>
                IF latest.cloud = 0 THEN out_pc[c] = EmptyCloud
                ELSE /\ out_pc[c].data > 0
                     /\ heap[out_pc[c].data].src = latest.cloud
                     /\ heap[out_pc[c].colors].src = latest.cloud

\* C25 witness: the second and the third publish went by without a
\* retrieval between them, the second with a depth frame and the third with
\* a texture frame only; the begin call hands out the second depth frame,
\* its cloud and the third texture frame
C25_Witness ==
    \E c \in Consumers :
        /\ decoders = 2
        /\ hardware_unprojector
        /\ InWindow(c)
        /\ want[c] = "both"
        /\ out_frame[c][0].data = 2
        /\ out_frame[c][1].data = 3
        /\ out_pc[c].data > 0
        /\ heap[out_pc[c].data].src = 2

\* the four array pointers of the two descriptors
ArrayPointers ==
    <<point_cloud.data, point_cloud.colors,
      point_cloud_shared.data, point_cloud_shared.colors>>

\* C26: until unhvd_close has freed them, the non-null array pointers of the
\* working and the published descriptor are four different allocated
\* arrays, and no other array is allocated. The swap exchanges the two
\* descriptors and leaves every array as it is; no step of the decoder
\* thread changes an array of the published cloud, so the arrays handed to a
\* polling thread stay as they are for the whole of its window; and the
\* freeing step of unhvd_close on a live object finds each of these arrays
\* allocated and leaves every array freed.
C26_Storage ==
    /\ [](close_pc # "closed" =>
            /\ \A i, j \in 1..4 :
                 (i # j /\ ArrayPointers[i] # 0) =>
                     ArrayPointers[i] # ArrayPointers[j]
            /\ \A a \in Addr : (heap[a] # FreeCell) <=> (a \in Arrays(Clouds)))
    /\ [][SwapStep =>
            /\ heap' = heap
            /\ point_cloud_shared' = point_cloud
            /\ point_cloud' = point_cloud_shared
       ]_vars
    /\ [][close_pc' # "closed" =>
            \A a \in Arrays({point_cloud_shared}) : heap'[a] = heap[a]
       ]_vars
    /\ [][\A c \in Consumers :
            (InWindow(c) /\ (InWindow(c))' /\ out_pc[c].data > 0) =>
                /\ heap'[out_pc[c].data] = heap[out_pc[c].data]
                /\ heap'[out_pc[c].colors] = heap[out_pc[c].colors]
                /\ heap[out_pc[c].data] # FreeCell
       ]_vars
    /\ [][(close_pc = "joining" /\ close_pc' = "closed") =>
            /\ \A a \in Arrays(Clouds) : heap[a] # FreeCell /\ heap'[a] = FreeCell
            /\ \A a \in Addr : heap'[a] = FreeCell
       ]_vars

\* C26 witness: a polling thread reads the second cloud while the decoder
\* thread has reallocated the working arrays for a third depth frame of
\* another size; all four arrays are allocated
C26_Witness ==
    \E c \in Consumers :
        /\ InWindow(c)
        /\ out_pc[c].data > 0
        /\ out_pc[c] = point_cloud_shared
        /\ heap[out_pc[c].data].src = 2
        /\ ppc = "lock"
        /\ point_cloud.data > 0
        /\ heap[point_cloud.data].born = 3
        /\ point_cloud.size # point_cloud_shared.size
        /\ \A a \in Addr : heap[a] # FreeCell

\* references to the picture d of stream i: the one u->frame[i] holds after
\* av_frame_ref, and the decoder's own in frames[i]
SlotRef(i, d) == IF frame[i].data = d THEN 1 ELSE 0

DecoderRef(i, d) == IF frames[i].data = d THEN 1 ELSE 0

RefCount(i, d) == SlotRef(i, d) + DecoderRef(i, d)

\* a slot gives up the reference it holds
Released(i) == frame[i] # NullFrame /\ frame'[i] # frame[i]

\* C27: between a begin that returned UNHVD_OK and its end, the picture
\* behind every non-null plane pointer handed to the polling thread is
\* referenced by its slot, so its reference count is at least one whether or
\* not the decoder thread still holds its own reference. A slot is empty
\* when av_frame_ref fills it, so it holds at most one reference, and a slot
\* gives its reference up only in the unref of a publish to that slot, in
\* unhvd_get_end or in unhvd_close.
C27_SlotReference ==
    /\ [](\A c \in Consumers : InWindow(c) =>
            \A i \in Streams :
                out_frame[c][i].data > 0 =>
                    /\ SlotRef(i, out_frame[c][i].data) = 1
                    /\ RefCount(i, out_frame[c][i].data) >= 1)
    /\ [][(ppc = "ref" /\ ppc' # "ref") =>
            /\ frame[pidx] = NullFrame
            /\ frames[pidx].data # 0
            /\ frame'[pidx] = frames[pidx]
       ]_vars
    /\ [][\A i \in Streams :
            Released(i) =>
                /\ frame'[i] = NullFrame
                /\ \/ ppc = "publish" /\ ppc' = "ref" /\ pidx = i
                   \/ \E c \in Consumers : cpc[c] = "held" /\ cpc'[c] = "idle"
                   \/ close_pc = "joining" /\ close_pc' = "closed"
       ]_vars

\* C27 witness: a polling thread holds a picture whose only reference is the
\* slot's: the decoder thread dropped its own, received the next picture of
\* that stream and waits for the mutex
C27_Witness ==
    \E c \in Consumers, i \in Streams :
        /\ InWindow(c)
        /\ out_frame[c][i].data > 0
        /\ ppc = "lock"
        /\ frames[i].data > out_frame[c][i].data
        /\ DecoderRef(i, out_frame[c][i].data) = 0
        /\ RefCount(i, out_frame[c][i].data) = 1

====
